---- MODULE Spec2Model ----
(***************************************************************************)
(* The ingress options of the gameserver ingress controller                *)
(* (pkg/reconcilers/options.go) and the annotation accessors they read     *)
(* (pkg/gameserver/gameserver.go), as a state machine: a GameServer record *)
(* and a target Ingress are given, the routing mode is resolved from the   *)
(* record, and a list of IngressOption steps is applied to the Ingress in  *)
(* order until one of them returns an error.                               *)
(*                                                                         *)
(* Go strings are TLA+ strings (\o, Len, SubSeq); a Go map is a function   *)
(* whose DOMAIN is its key set; a nil error is the value Nil.              *)
(***************************************************************************)
EXTENDS Integers, Sequences, FiniteSets, TLC

VARIABLES
    gs,          \* the GameServer: [name, annotations, ports]
    ingress,     \* the target Ingress: [annotations, tls, rules]
    issuerName,  \* the issuer name WithTLSCertIssuer is built with
    steps,       \* the supplied list of IngressOption steps (their kinds)
    mode,        \* the routing mode WithTLS / WithIngressRule are built with
    pc,          \* 0 before the mode is resolved, then the index of the next step
    err,         \* the error the run reports, Nil while there is none
    applied,     \* history: the steps invoked so far, in order
    prev,        \* history: the Ingress as it was before the last invoked step
    start        \* history: the record and the Ingress the run started from

vars == <<gs, ingress, issuerName, steps, mode, pc, err, applied, prev, start>>

----------------------------------------------------------------------------
(* Bounds of the model *)

MaxAnnotations == 2   \* most annotations on a GameServer record
MaxSteps == 2         \* longest list of steps

----------------------------------------------------------------------------
(* pkg/gameserver/gameserver.go: constants *)

IngressRoutingModeDomain == "domain"
IngressRoutingModePath == "path"
OctopsAnnotationIngressMode == "octops.io/gameserver-ingress-mode"
OctopsAnnotationIngressDomain == "octops.io/gameserver-ingress-domain"
OctopsAnnotationIngressFQDN == "octops.io/gameserver-ingress-fqdn"
OctopsAnnotationSecretName == "octops.io/secret-name"
OctopsAnnotationTerminateTLS == "octops.io/terminate-tls"
OctopsAnnotationIssuerName == "octops.io/issuer-tls-name"
OctopsAnnotationCustomPrefix == "octops-"
CertManagerAnnotationIssuer == "cert-manager.io/issuer"

Nil == "<nil>"

----------------------------------------------------------------------------
(* Go library functions the options call *)

\* strings.HasPrefix(s, prefix)
HasPrefix(s, prefix) ==
    /\ Len(s) >= Len(prefix)
    /\ SubSeq(s, 1, Len(prefix)) = prefix

\* a slip: strings.TrimLeft(s, prefix), which takes its second argument as a
\* set of characters and removes every leading character found in it
RECURSIVE TrimPrefix_TrimLeft(_, _)
TrimPrefix_TrimLeft(s, prefix) ==
    IF Len(s) > 0
       /\ SubSeq(s, 1, 1) \in {SubSeq(prefix, i, i) : i \in 1..Len(prefix)}
    THEN TrimPrefix_TrimLeft(SubSeq(s, 2, Len(s)), prefix)
    ELSE s

\* strings.TrimPrefix(s, prefix)
TrimPrefix(s, prefix) ==
    IF HasPrefix(s, prefix) THEN SubSeq(s, Len(prefix) + 1, Len(s)) ELSE s

\* strconv.ParseBool(str): the literals it accepts, an error for any other
ParseBool(str) ==
    IF str \in {"1", "t", "T", "TRUE", "true", "True"}
    THEN [value |-> TRUE, err |-> Nil]
    ELSE IF str \in {"0", "f", "F", "FALSE", "false", "False"}
    THEN [value |-> FALSE, err |-> Nil]
    ELSE [value |-> FALSE, err |-> "strconv.ParseBool: parsing: invalid syntax"]

\* m[key] = value on a Go map
MapSet(m, key, value) == (key :> value) @@ m

\* the orders in which `for k, v := range m` may visit the keys of m
RangeOrders(m) ==
    LET keys == DOMAIN m
        n == Cardinality(keys)
    IN  {o \in [1..n -> keys] : \A i, j \in 1..n : o[i] = o[j] => i = j}

----------------------------------------------------------------------------
(* pkg/gameserver/gameserver.go: accessors *)

\* a slip: an annotation with an empty value reported as absent
HasAnnotation_NonEmpty(g, annotation) ==
    IF annotation \in DOMAIN g.annotations /\ g.annotations[annotation] # ""
    THEN [value |-> g.annotations[annotation], ok |-> TRUE]
    ELSE [value |-> "", ok |-> FALSE]

\* HasAnnotation(gs, annotation) (string, bool)
HasAnnotation(g, annotation) ==
    IF annotation \in DOMAIN g.annotations
    THEN [value |-> g.annotations[annotation], ok |-> TRUE]
    ELSE [value |-> "", ok |-> FALSE]

\* a slip: the last port of the status instead of the first
GetGameServerPort_Last(g) ==
    IF Len(g.ports) > 0 THEN g.ports[Len(g.ports)] ELSE 0

\* GetGameServerPort(gs).Port: the first port of the status, the zero value
\* of GameServerStatusPort when there is none
GetGameServerPort(g) ==
    IF Len(g.ports) > 0 THEN g.ports[1] ELSE 0

\* a slip: every value other than "path" turned into "domain"
GetIngressRoutingMode_Coerced(g) ==
    IF OctopsAnnotationIngressMode \in DOMAIN g.annotations
       /\ g.annotations[OctopsAnnotationIngressMode] = "path"
    THEN "path"
    ELSE "domain"

\* GetIngressRoutingMode(gs)
GetIngressRoutingMode(g) ==
    LET a == HasAnnotation(g, OctopsAnnotationIngressMode)
    IN  IF a.ok THEN a.value ELSE IngressRoutingModeDomain

----------------------------------------------------------------------------
(* pkg/reconcilers/options.go: the options.  Each is an operator from the  *)
(* record and the Ingress to [ingress |-> the Ingress afterwards,          *)
(* err |-> the error returned].                                            *)

\* a slip: the loop returns after the first custom annotation it copies
RECURSIVE CustomAnnotationsLoop_StopsAtFirst(_, _, _)
CustomAnnotationsLoop_StopsAtFirst(g, order, annotations) ==
    IF order = <<>>
    THEN [annotations |-> annotations, err |-> Nil]
    ELSE LET k == Head(order)
             v == g.annotations[k]
         IN  IF Len(k) >= Len(OctopsAnnotationCustomPrefix)
                /\ SubSeq(k, 1, Len(OctopsAnnotationCustomPrefix))
                      = OctopsAnnotationCustomPrefix
             THEN LET custom == SubSeq(k, Len(OctopsAnnotationCustomPrefix) + 1,
                                       Len(k))
                  IN  IF Len(custom) = 0
                      THEN [annotations |-> annotations,
                            err |-> "custom annotation does not contain a suffix"]
                      ELSE [annotations |-> (custom :> v) @@ annotations,
                            err |-> Nil]
             ELSE CustomAnnotationsLoop_StopsAtFirst(g, Tail(order), annotations)

\* the loop of WithCustomAnnotations over the record's annotations, visited
\* in the given order; annotations is ingress.Annotations itself (a Go map is
\* a reference), so what was written before an error stays written
RECURSIVE CustomAnnotationsLoop(_, _, _)
CustomAnnotationsLoop(g, order, annotations) ==
    IF order = <<>>
    THEN [annotations |-> annotations, err |-> Nil]
    ELSE LET k == Head(order)
             v == g.annotations[k]
         IN  IF HasPrefix(k, OctopsAnnotationCustomPrefix)
             THEN LET custom == TrimPrefix(k, OctopsAnnotationCustomPrefix)
                  IN  IF Len(custom) = 0
                      THEN [annotations |-> annotations,
                            err |-> "custom annotation does not contain a suffix"]
                      ELSE CustomAnnotationsLoop(g, Tail(order),
                                                 MapSet(annotations, custom, v))
             ELSE CustomAnnotationsLoop(g, Tail(order), annotations)

\* a slip: the custom annotations collected in a new map, which
\* SetAnnotations then puts in place of the Ingress's own
WithCustomAnnotations_FreshMap(g, ing, order) ==
    LET r == CustomAnnotationsLoop(g, order, <<>>)
    IN  [ingress |-> [ing EXCEPT !.annotations = r.annotations], err |-> r.err]

\* WithCustomAnnotations(), its range visiting the keys in `order`
WithCustomAnnotations(g, ing, order) ==
    LET r == CustomAnnotationsLoop(g, order, ing.annotations)
    IN  [ingress |-> [ing EXCEPT !.annotations = r.annotations], err |-> r.err]

\* errMsgInvalidAnnotation of WithTLS
TLSErrMsgInvalidAnnotation(m, annotation) ==
    "ingress routing mode " \o m \o " requires the annotation " \o annotation
        \o " to be set"

\* tlsForDomain of WithTLS
tlsForDomain(m, g) ==
    LET a == HasAnnotation(g, OctopsAnnotationIngressDomain)
    IN  IF ~a.ok
        THEN [fqdn |-> "", secretName |-> "",
              err |-> TLSErrMsgInvalidAnnotation(m, OctopsAnnotationIngressDomain)]
        ELSE [fqdn |-> g.name \o "." \o a.value,
              secretName |-> g.name \o "-tls", err |-> Nil]

\* tlsForPath of WithTLS
tlsForPath(m, g) ==
    LET a == HasAnnotation(g, OctopsAnnotationIngressFQDN)
    IN  IF ~a.ok
        THEN [fqdn |-> "", secretName |-> "",
              err |-> TLSErrMsgInvalidAnnotation(m, OctopsAnnotationIngressFQDN)]
        ELSE [fqdn |-> a.value, secretName |-> g.name \o "-tls", err |-> Nil]

\* a slip: the secret-name annotation honoured only when it is not empty
WithTLS_IgnoresEmptySecret(m, g, ing) ==
    LET t == IF m = IngressRoutingModePath THEN tlsForPath(m, g)
             ELSE tlsForDomain(m, g)
        specificsecret == HasAnnotation(g, OctopsAnnotationSecretName)
        secret == IF specificsecret.ok /\ Len(specificsecret.value) > 0
                  THEN specificsecret.value ELSE t.secretName
    IN  IF t.err # Nil
        THEN [ingress |-> ing, err |-> t.err]
        ELSE [ingress |-> [ing EXCEPT !.tls =
                              <<[hosts |-> <<t.fqdn>>, secretName |-> secret]>>],
              err |-> Nil]

\* a slip: the TLS block assigned before the error is looked at
WithTLS_AssignsBeforeCheck(m, g, ing) ==
    LET t == IF m = IngressRoutingModePath THEN tlsForPath(m, g)
             ELSE tlsForDomain(m, g)
        specificsecret == HasAnnotation(g, OctopsAnnotationSecretName)
        secret == IF specificsecret.ok THEN specificsecret.value ELSE t.secretName
    IN  [ingress |-> [ing EXCEPT !.tls =
                         <<[hosts |-> <<t.fqdn>>, secretName |-> secret]>>],
         err |-> t.err]

\* WithTLS(mode)
WithTLS(m, g, ing) ==
    LET t == IF m = IngressRoutingModePath THEN tlsForPath(m, g)
             ELSE tlsForDomain(m, g)
        specificsecret == HasAnnotation(g, OctopsAnnotationSecretName)
        secret == IF specificsecret.ok THEN specificsecret.value ELSE t.secretName
    IN  IF t.err # Nil
        THEN [ingress |-> ing, err |-> t.err]
        ELSE [ingress |-> [ing EXCEPT !.tls =
                              <<[hosts |-> <<t.fqdn>>, secretName |-> secret]>>],
              err |-> Nil]

\* errMsgInvalidAnnotation of WithIngressRule
RuleErrMsgInvalidAnnotation(m, annotation, gsName) ==
    "ingress routing mode " \o m \o " requires the annotation " \o annotation
        \o " to be present on " \o gsName
        \o ", check your Fleet or GameServer manifest."

\* newIngressRule(host, path, name, port); PathType, the same package
\* variable in every rule, is left out
newIngressRule(host, path, name, port) ==
    <<[host |-> host,
       paths |-> <<[path |-> path,
                    service |-> [name |-> name, port |-> port]]>>]>>

\* WithIngressRule(mode)
WithIngressRule(m, g, ing) ==
    IF m = IngressRoutingModePath
    THEN LET a == HasAnnotation(g, OctopsAnnotationIngressFQDN)
         IN  IF ~a.ok
             THEN [ingress |-> ing,
                   err |-> RuleErrMsgInvalidAnnotation(
                               m, OctopsAnnotationIngressFQDN, g.name)]
             ELSE [ingress |-> [ing EXCEPT !.rules =
                                   newIngressRule(a.value, "/" \o g.name, g.name,
                                                  GetGameServerPort(g))],
                   err |-> Nil]
    ELSE LET a == HasAnnotation(g, OctopsAnnotationIngressDomain)
         IN  IF ~a.ok
             THEN [ingress |-> ing,
                   err |-> RuleErrMsgInvalidAnnotation(
                               m, OctopsAnnotationIngressDomain, g.name)]
             ELSE [ingress |-> [ing EXCEPT !.rules =
                                   newIngressRule(g.name \o "." \o a.value, "/",
                                                  g.name, GetGameServerPort(g))],
                   err |-> Nil]

\* a slip: the issuer name checked before the secret-name annotation
WithTLSCertIssuer_IssuerFirst(issuer, g, ing) ==
    LET terminate == HasAnnotation(g, OctopsAnnotationTerminateTLS)
        terminateTLS == ParseBool(terminate.value)
        sec == HasAnnotation(g, OctopsAnnotationSecretName)
    IN  IF ~terminate.ok \/ Len(terminate.value) = 0
        THEN [ingress |-> ing, err |-> Nil]
        ELSE IF terminateTLS.err # Nil
        THEN [ingress |-> ing,
              err |-> "annotation " \o OctopsAnnotationTerminateTLS \o " for "
                      \o g.name \o " must be \"true\" or \"false\""]
        ELSE IF terminateTLS.value = FALSE
        THEN [ingress |-> ing, err |-> Nil]
        ELSE IF Len(issuer) = 0
        THEN [ingress |-> ing,
              err |-> "annotation " \o OctopsAnnotationIssuerName \o " for "
                      \o g.name
                      \o " must be present, check your Fleet or GameServer manifest."]
        ELSE IF sec.ok
        THEN [ingress |-> ing, err |-> Nil]
        ELSE [ingress |-> [ing EXCEPT !.annotations =
                              (CertManagerAnnotationIssuer :> issuer)
                                  @@ ing.annotations],
              err |-> Nil]

\* WithTLSCertIssuer(issuerName)
WithTLSCertIssuer(issuer, g, ing) ==
    LET terminate == HasAnnotation(g, OctopsAnnotationTerminateTLS)
        terminateTLS == ParseBool(terminate.value)
        sec == HasAnnotation(g, OctopsAnnotationSecretName)
    IN  IF ~terminate.ok \/ Len(terminate.value) = 0
        THEN [ingress |-> ing, err |-> Nil]
        ELSE IF terminateTLS.err # Nil
        THEN [ingress |-> ing,
              err |-> "annotation " \o OctopsAnnotationTerminateTLS \o " for "
                      \o g.name \o " must be \"true\" or \"false\""]
        ELSE IF terminateTLS.value = FALSE
        THEN [ingress |-> ing, err |-> Nil]
        ELSE IF sec.ok
        THEN [ingress |-> ing, err |-> Nil]
        ELSE IF Len(issuer) = 0
        THEN [ingress |-> ing,
              err |-> "annotation " \o OctopsAnnotationIssuerName \o " for "
                      \o g.name
                      \o " must be present, check your Fleet or GameServer manifest."]
        ELSE [ingress |-> [ing EXCEPT !.annotations =
                              MapSet(ing.annotations, CertManagerAnnotationIssuer,
                                     issuer)],
              err |-> Nil]

----------------------------------------------------------------------------
(* The inputs *)

GsName == "gs-1"

\* the annotations a record may carry: key -> the values tried for it
AnnotationValues ==
    [k \in {OctopsAnnotationIngressMode, OctopsAnnotationIngressDomain,
            OctopsAnnotationIngressFQDN, OctopsAnnotationSecretName,
            OctopsAnnotationTerminateTLS, "octops-", "octops-color",
            "octops-cert-manager.io/issuer"} |->
        CASE k = OctopsAnnotationIngressMode -> {"domain", "path", "udp", ""}
          [] k = OctopsAnnotationIngressDomain -> {"example.com", ""}
          [] k = OctopsAnnotationIngressFQDN -> {"game.example.com", ""}
          [] k = OctopsAnnotationSecretName -> {"my-secret", ""}
          [] k = OctopsAnnotationTerminateTLS -> {"true", "1", "false", "maybe", ""}
          [] k = "octops-" -> {"x"}
          [] k = "octops-color" -> {"blue"}
          [] k = "octops-cert-manager.io/issuer" -> {"selfsigned", "letsencrypt"}]

AnnotationMaps ==
    UNION {
        {a \in [K -> UNION {AnnotationValues[k] : k \in K}] :
            \A k \in K : a[k] \in AnnotationValues[k]} :
        K \in {S \in SUBSET DOMAIN AnnotationValues :
                  Cardinality(S) <= MaxAnnotations} }

\* gs.Status.Ports, as the port numbers
PortLists == {<<>>, <<7001, 7000>>}

GameServers ==
    {[name |-> GsName, annotations |-> a, ports |-> p] :
        a \in AnnotationMaps, p \in PortLists}

IssuerNames == {"", "letsencrypt"}

\* the target Ingress before the run: a new one, and one that already
\* carries annotations, two TLS entries and two rules
NewIngress == [annotations |-> <<>>, tls |-> <<>>, rules |-> <<>>]

OldIngress ==
    [annotations |-> ("color" :> "red") @@ (CertManagerAnnotationIssuer :> "old"),
     tls |-> <<[hosts |-> <<"a.old", "b.old">>, secretName |-> "old-tls"],
               [hosts |-> <<"c.old">>, secretName |-> "old2-tls"]>>,
     rules |-> newIngressRule("a.old", "/", "old", 80)
               \o newIngressRule("b.old", "/b", "old", 81)]

Ingresses == {NewIngress, OldIngress}

StepKinds == {"WithCustomAnnotations", "WithTLS", "WithIngressRule",
              "WithTLSCertIssuer"}

\* the step lists: each option at most once, in any order
StepLists ==
    UNION { {s \in [1..n -> StepKinds] :
                \A i, j \in 1..n : s[i] = s[j] => i = j} : n \in 0..MaxSteps }

----------------------------------------------------------------------------
(* The run *)

Init ==
    /\ gs \in GameServers
    /\ ingress \in Ingresses
    /\ issuerName \in IssuerNames
    /\ steps \in StepLists
    /\ mode = "unresolved"
    /\ pc = 0
    /\ err = Nil
    /\ applied = <<>>
    /\ prev = ingress
    /\ start = [gs |-> gs, ingress |-> ingress]

\* the driver resolves the routing mode the options are built with
ResolveMode ==
    /\ pc = 0
    /\ mode' = GetIngressRoutingMode(gs)
    /\ pc' = 1
    /\ UNCHANGED <<gs, ingress, issuerName, steps, err, applied, prev, start>>

\* a slip: the executor goes on to the next step after a step has failed
AtStep_AfterError(kind) ==
    /\ pc >= 1
    /\ pc <= Len(steps)
    /\ steps[pc] = kind

\* the executor is at a step of the given kind: no step has failed so far
\* and the list is not exhausted
AtStep(kind) ==
    /\ pc >= 1
    /\ err = Nil
    /\ pc <= Len(steps)
    /\ steps[pc] = kind

\* the executor takes a step's result: the Ingress as the step left it, and
\* the step's error, which ends the run when it is not nil
Return(kind, res) ==
    /\ ingress' = res.ingress
    /\ err' = res.err
    /\ pc' = pc + 1
    /\ applied' = Append(applied, kind)
    /\ prev' = ingress
    /\ UNCHANGED <<gs, issuerName, steps, mode, start>>

ApplyCustomAnnotations ==
    /\ AtStep("WithCustomAnnotations")
    /\ \E order \in RangeOrders(gs.annotations) :
          Return("WithCustomAnnotations", WithCustomAnnotations(gs, ingress, order))

ApplyTLS ==
    /\ AtStep("WithTLS")
    /\ Return("WithTLS", WithTLS(mode, gs, ingress))

ApplyIngressRule ==
    /\ AtStep("WithIngressRule")
    /\ Return("WithIngressRule", WithIngressRule(mode, gs, ingress))

ApplyTLSCertIssuer ==
    /\ AtStep("WithTLSCertIssuer")
    /\ Return("WithTLSCertIssuer", WithTLSCertIssuer(issuerName, gs, ingress))

Next ==
    \/ ResolveMode
    \/ ApplyCustomAnnotations
    \/ ApplyTLS
    \/ ApplyIngressRule
    \/ ApplyTLSCertIssuer

Spec == Init /\ [][Next]_vars

\* the run has returned
Done == pc >= 1 /\ (err # Nil \/ pc > Len(steps))

----------------------------------------------------------------------------
(* The Pipeline Executor as a function: the steps ss applied in order to   *)
(* ing, stopping at the first error; `order` is the order in which         *)
(* WithCustomAnnotations visits the record's annotations.                  *)

StepResult(kind, g, ing, order) ==
    CASE kind = "WithCustomAnnotations" -> WithCustomAnnotations(g, ing, order)
      [] kind = "WithTLS" -> WithTLS(mode, g, ing)
      [] kind = "WithIngressRule" -> WithIngressRule(mode, g, ing)
      [] kind = "WithTLSCertIssuer" -> WithTLSCertIssuer(issuerName, g, ing)

RECURSIVE RunPipeline(_, _, _, _)
RunPipeline(g, ing, ss, order) ==
    IF ss = <<>>
    THEN [ingress |-> ing, err |-> Nil]
    ELSE LET r == StepResult(Head(ss), g, ing, order)
         IN  IF r.err # Nil THEN r
             ELSE RunPipeline(g, r.ingress, Tail(ss), order)

----------------------------------------------------------------------------
(* Vocabulary of the claims *)

Orders == RangeOrders(gs.annotations)

Has(annotation) == annotation \in DOMAIN gs.annotations

\* the step that has just been invoked: ingress is what it left, prev what
\* it was given, err what it returned
Invoked(kind) == applied # <<>> /\ applied[Len(applied)] = kind

Reverse(s) == [i \in 1..Len(s) |-> s[Len(s) + 1 - i]]

\* the annotation a builder requires in the resolved mode
RequiredAnnotation ==
    IF mode = "path" THEN OctopsAnnotationIngressFQDN
    ELSE OctopsAnnotationIngressDomain

\* the host a builder derives in the resolved mode
ExpectedHost ==
    IF mode = "path" THEN gs.annotations[OctopsAnnotationIngressFQDN]
    ELSE gs.name \o "." \o gs.annotations[OctopsAnnotationIngressDomain]

\* the suffixes c of the record's custom annotations: c is not empty and
\* the prefix followed by c is a key of the record
CustomSuffixes ==
    {c \in UNION {{SubSeq(k, i, Len(k)) : i \in 2..Len(k)} :
                     k \in DOMAIN gs.annotations} :
        Has(OctopsAnnotationCustomPrefix \o c)}

\* m overridden with the record's custom annotations of the suffixes in S
Overridden(m, S) ==
    [k \in DOMAIN m \cup S |->
        IF k \in S THEN gs.annotations[OctopsAnnotationCustomPrefix \o k]
        ELSE m[k]]

----------------------------------------------------------------------------
(* C1 *)

\* C1 as stated: once the mode is resolved it is "path" exactly when the
\* ingress-mode annotation is "path", and "domain" in every other case
\* (annotation absent, or present with any other value).
C1_ResolverCoercesToDomain ==
    pc >= 1 =>
        IF Has(OctopsAnnotationIngressMode)
           /\ gs.annotations[OctopsAnnotationIngressMode] = "path"
        THEN mode = "path"
        ELSE mode = "domain"

\* C1 amended: the resolved mode is "domain" when the ingress-mode annotation
\* is absent and the annotation's value, unchanged, when it is present; so it
\* is "path" only when the value is exactly "path".
C1_ResolverReturnsValue ==
    pc >= 1 =>
        /\ ~Has(OctopsAnnotationIngressMode) => mode = "domain"
        /\ Has(OctopsAnnotationIngressMode) =>
              mode = gs.annotations[OctopsAnnotationIngressMode]
        /\ mode = "path" <=>
              /\ Has(OctopsAnnotationIngressMode)
              /\ gs.annotations[OctopsAnnotationIngressMode] = "path"

C1_Witness ==
    /\ pc >= 1
    /\ Has(OctopsAnnotationIngressMode)
    /\ gs.annotations[OctopsAnnotationIngressMode] = "udp"
    /\ mode = "udp"

----------------------------------------------------------------------------
(* C2 *)

\* C2: the steps are invoked in the supplied order, each at most once; when
\* the run reports an error, the step invoked last is the first one that
\* fails, it was given the Ingress that the steps before it produced, the
\* error reported is that step's error, and no further step can be invoked;
\* when the run ends without an error every step was invoked exactly once
\* and the Ingress is what the whole list produces.
C2_FailFast ==
    LET n == Len(applied) IN
    /\ n <= Len(steps) /\ applied = SubSeq(steps, 1, n)
    /\ pc >= 1 => n = pc - 1
    /\ err # Nil =>
          /\ n >= 1
          /\ \A i \in 1..(n - 1) : \A o \in Orders :
                RunPipeline(gs, start.ingress, SubSeq(steps, 1, i), o).err = Nil
          /\ \A o \in Orders :
                prev = RunPipeline(gs, start.ingress, SubSeq(steps, 1, n - 1), o).ingress
          /\ \E o \in Orders :
                StepResult(steps[n], gs, prev, o) = [ingress |-> ingress, err |-> err]
          /\ ~ENABLED Next
    /\ (Done /\ err = Nil) =>
          /\ applied = steps
          /\ \A o \in Orders :
                RunPipeline(gs, start.ingress, steps, o)
                    = [ingress |-> ingress, err |-> Nil]

\* step A succeeds and mutates the Ingress, step B then fails
C2_Witness ==
    /\ Len(steps) = 2
    /\ Len(applied) = 2
    /\ err # Nil
    /\ prev # start.ingress
    /\ ingress = prev

----------------------------------------------------------------------------
(* C3 *)

\* C3: after a successful WithIngressRule the rule list is exactly one rule
\* with one path, whatever it held before: host and path as the mode says,
\* the backend service named after the game server, the backend port the
\* first port of the record, or zero when it has none.
C3_RuleBuilder ==
    (Invoked("WithIngressRule") /\ err = Nil) =>
        /\ Has(RequiredAnnotation)
        /\ ingress.rules =
              <<[host |-> ExpectedHost,
                 paths |-> <<[path |-> IF mode = "path" THEN "/" \o gs.name ELSE "/",
                              service |->
                                 [name |-> gs.name,
                                  port |-> IF gs.ports = <<>> THEN 0
                                           ELSE Head(gs.ports)]]>>]>>
        /\ ingress.annotations = prev.annotations
        /\ ingress.tls = prev.tls

C3_Witness ==
    /\ Invoked("WithIngressRule")
    /\ err = Nil
    /\ mode = "path"
    /\ Len(prev.rules) = 2
    /\ Len(gs.ports) = 2
    /\ Len(ingress.rules) = 1

----------------------------------------------------------------------------
(* C4 *)

\* C4: after a successful WithTLS the TLS block is exactly one entry with
\* exactly one host, the host the mode says; its secret name is the
\* secret-name annotation's value whenever that annotation is present (the
\* empty string too), and the game server's name followed by "-tls" otherwise.
C4_TLSBuilder ==
    (Invoked("WithTLS") /\ err = Nil) =>
        /\ Has(RequiredAnnotation)
        /\ ingress.tls =
              <<[hosts |-> <<ExpectedHost>>,
                 secretName |->
                    IF Has(OctopsAnnotationSecretName)
                    THEN gs.annotations[OctopsAnnotationSecretName]
                    ELSE gs.name \o "-tls"]>>
        /\ ingress.annotations = prev.annotations
        /\ ingress.rules = prev.rules

C4_Witness ==
    /\ Invoked("WithTLS")
    /\ err = Nil
    /\ Has(OctopsAnnotationSecretName)
    /\ gs.annotations[OctopsAnnotationSecretName] = ""
    /\ Len(prev.tls) = 2
    /\ ingress.tls[1].secretName = ""

----------------------------------------------------------------------------
(* C5 *)

\* C5: WithIngressRule and WithTLS return an error exactly when the
\* annotation their mode requires is absent from the record: fqdn in mode
\* "path", domain in every other mode; the other annotation does not matter,
\* and a required annotation that is present with an empty value is no error.
C5_MissingAnnotation ==
    (Invoked("WithIngressRule") \/ Invoked("WithTLS")) =>
        (err # Nil <=> ~Has(RequiredAnnotation))

C5_Witness ==
    /\ Invoked("WithTLS")
    /\ mode = "path"
    /\ Has(OctopsAnnotationIngressDomain)
    /\ ~Has(OctopsAnnotationIngressFQDN)
    /\ err # Nil

----------------------------------------------------------------------------
(* C6 *)

\* terminate-tls parses to true
TerminatesTLS ==
    /\ Has(OctopsAnnotationTerminateTLS)
    /\ gs.annotations[OctopsAnnotationTerminateTLS] # ""
    /\ ParseBool(gs.annotations[OctopsAnnotationTerminateTLS]).err = Nil
    /\ ParseBool(gs.annotations[OctopsAnnotationTerminateTLS]).value

\* WithTLSCertIssuer writes the issuer annotation
IssuerWritten ==
    /\ TerminatesTLS
    /\ ~Has(OctopsAnnotationSecretName)
    /\ issuerName # ""

\* C6: the outcome of WithTLSCertIssuer is that of the first matching line:
\* (1) terminate-tls absent or empty: no error, Ingress untouched;
\* (2) terminate-tls no boolean: the validation error, Ingress untouched;
\* (3) it parses to false: no error, Ingress untouched;
\* (4) secret-name present: no error, Ingress untouched, also with an empty
\*     issuer name;
\* (5) issuer name empty: the configuration error, Ingress untouched;
\* (6) otherwise cert-manager.io/issuer is set to the issuer name and nothing
\*     else changes.
C6_IssuerLadder ==
    Invoked("WithTLSCertIssuer") =>
        LET t == IF Has(OctopsAnnotationTerminateTLS)
                 THEN gs.annotations[OctopsAnnotationTerminateTLS] ELSE ""
        IN  IF ~Has(OctopsAnnotationTerminateTLS) \/ t = ""
            THEN err = Nil /\ ingress = prev
            ELSE IF ParseBool(t).err # Nil
            THEN /\ err = "annotation octops.io/terminate-tls for " \o gs.name
                          \o " must be \"true\" or \"false\""
                 /\ ingress = prev
            ELSE IF ~ParseBool(t).value
            THEN err = Nil /\ ingress = prev
            ELSE IF Has(OctopsAnnotationSecretName)
            THEN err = Nil /\ ingress = prev
            ELSE IF issuerName = ""
            THEN /\ err = "annotation octops.io/issuer-tls-name for " \o gs.name
                          \o " must be present, check your Fleet or GameServer manifest."
                 /\ ingress = prev
            ELSE /\ err = Nil
                 /\ IssuerWritten
                 /\ ingress = [prev EXCEPT !.annotations =
                                  [k \in DOMAIN prev.annotations
                                         \cup {CertManagerAnnotationIssuer} |->
                                      IF k = CertManagerAnnotationIssuer
                                      THEN issuerName ELSE prev.annotations[k]]]

\* terminate-tls is true, secret-name is present and the issuer name is
\* empty: no error and no annotation
C6_Witness ==
    /\ Invoked("WithTLSCertIssuer")
    /\ TerminatesTLS
    /\ Has(OctopsAnnotationSecretName)
    /\ issuerName = ""
    /\ err = Nil
    /\ ingress = prev

----------------------------------------------------------------------------
(* C7 *)

\* C7: WithCustomAnnotations returns the error "custom annotation does not
\* contain a suffix" exactly when the record has the key "octops-", and no
\* other error; when it succeeds the Ingress annotations are the prior ones
\* overridden with suffix -> value for every key of the record that starts
\* with the prefix, and nothing else of the Ingress changes.
C7_CustomAnnotations ==
    Invoked("WithCustomAnnotations") =>
        /\ err # Nil <=> Has("octops-")
        /\ err # Nil => err = "custom annotation does not contain a suffix"
        /\ err = Nil =>
              ingress = [prev EXCEPT !.annotations =
                            Overridden(prev.annotations, CustomSuffixes)]

\* octops-color: blue replaces color: red of the Ingress, next to a record
\* annotation without the prefix, which is not copied
C7_Witness ==
    /\ Invoked("WithCustomAnnotations")
    /\ err = Nil
    /\ Has("octops-color")
    /\ Has(OctopsAnnotationIngressDomain)
    /\ prev.annotations = OldIngress.annotations
    /\ ingress.annotations =
          ("color" :> "blue") @@ (CertManagerAnnotationIssuer :> "old")

----------------------------------------------------------------------------
(* C8 *)

\* C8: when a run has succeeded, running the same list again from the
\* Ingress the run started with gives the same Ingress and no error, in
\* whatever order the record's annotations are visited.
C8_Deterministic ==
    (Done /\ err = Nil) =>
        \A o \in Orders :
            RunPipeline(gs, start.ingress, steps, o)
                = [ingress |-> ingress, err |-> Nil]

\* a successful run that copied two custom annotations
C8_Witness ==
    /\ Done
    /\ err = Nil
    /\ \E i \in 1..Len(steps) : steps[i] = "WithCustomAnnotations"
    /\ Cardinality(CustomSuffixes) = 2
    /\ Cardinality(Orders) = 2

----------------------------------------------------------------------------
(* C9 *)

\* both steps of a two-step list have succeeded
PairDone == Done /\ err = Nil /\ Len(steps) = 2

\* the same two steps in the other order, from the same Ingress
Swapped(o) == RunPipeline(gs, start.ingress, Reverse(steps), o)

\* WithCustomAnnotations and WithTLSCertIssuer write different values to
\* cert-manager.io/issuer
IssuerCollision ==
    /\ {steps[i] : i \in 1..Len(steps)}
          = {"WithCustomAnnotations", "WithTLSCertIssuer"}
    /\ IssuerWritten
    /\ Has(OctopsAnnotationCustomPrefix \o CertManagerAnnotationIssuer)
    /\ gs.annotations[OctopsAnnotationCustomPrefix \o CertManagerAnnotationIssuer]
          # issuerName

\* C9 as stated: two steps that both succeed give the same Ingress in
\* either order.
C9_StepsCommute ==
    PairDone =>
        \A o \in Orders : Swapped(o) = [ingress |-> ingress, err |-> Nil]

\* C9 amended: two steps that both succeed give the same Ingress in either
\* order, unless they are WithCustomAnnotations and WithTLSCertIssuer, the
\* issuer annotation is written and the record has the custom annotation
\* octops-cert-manager.io/issuer with a value other than the issuer name;
\* then cert-manager.io/issuer holds the value of whichever of the two ran
\* last, and the two orders agree on everything else.
C9_StepsCommuteUnlessIssuerCollision ==
    PairDone =>
        \A o \in Orders :
            /\ Swapped(o).err = Nil
            /\ ~IssuerCollision => Swapped(o).ingress = ingress
            /\ IssuerCollision =>
                  /\ ingress.annotations[CertManagerAnnotationIssuer] =
                        IF steps[2] = "WithTLSCertIssuer" THEN issuerName
                        ELSE gs.annotations[OctopsAnnotationCustomPrefix
                                                \o CertManagerAnnotationIssuer]
                  /\ Swapped(o).ingress.annotations[CertManagerAnnotationIssuer]
                        # ingress.annotations[CertManagerAnnotationIssuer]
                  /\ [Swapped(o).ingress EXCEPT
                         !.annotations[CertManagerAnnotationIssuer] =
                             ingress.annotations[CertManagerAnnotationIssuer]]
                        = ingress

\* WithTLSCertIssuer wrote the issuer and WithCustomAnnotations then copied
\* another annotation
C9_Witness ==
    /\ PairDone
    /\ steps = <<"WithTLSCertIssuer", "WithCustomAnnotations">>
    /\ IssuerWritten
    /\ Has("octops-color")
    /\ ingress.annotations[CertManagerAnnotationIssuer] = issuerName
    /\ ingress.annotations["color"] = "blue"

----------------------------------------------------------------------------
(* C10 *)

\* C10: a failing WithTLS, WithIngressRule or WithTLSCertIssuer leaves the
\* Ingress exactly as it was given; a failing WithCustomAnnotations leaves
\* the TLS block and the rules as given and the annotations as given,
\* overridden with some of the record's custom annotations; the record is
\* never modified.
C10_FailureEffect ==
    /\ gs = start.gs
    /\ \A kind \in {"WithTLS", "WithIngressRule", "WithTLSCertIssuer"} :
          (Invoked(kind) /\ err # Nil) => ingress = prev
    /\ (Invoked("WithCustomAnnotations") /\ err # Nil) =>
          \E S \in SUBSET CustomSuffixes :
              ingress = [prev EXCEPT !.annotations = Overridden(prev.annotations, S)]

\* WithCustomAnnotations failed after it had copied an annotation
C10_Witness ==
    /\ Invoked("WithCustomAnnotations")
    /\ err # Nil
    /\ ingress.tls = prev.tls
    /\ ingress.rules = prev.rules
    /\ ingress.annotations # prev.annotations

====
